---- MODULE Spec2Model ----
(***************************************************************************)
(* The document-to-vector pipeline of PMBot: TextChunker, VectorDatabase   *)
(* and RAGManager (src/vector_database.py) and DocumentManager             *)
(* (src/document_processor.py), and the PMChatbot objects of the           *)
(* application with their init_db threads (src/pm_chatbot_main.py).        *)
(*                                                                         *)
(* Abstractions.  A text is the sequence of its sections as _clean_text    *)
(* and _split_by_sections leave them, each section given by its number of  *)
(* words; a chunk text is the word interval it holds.  The embedding model *)
(* is a pure function from texts to vectors, vectors are small integers    *)
(* and the inner product is a similarity on them.  Timestamps are left     *)
(* out.  The build has faiss and sentence-transformers installed (an       *)
(* IndexFlatIP object is truthy whatever it holds), and the                *)
(* embedding model, once loaded, answers every encode call of a writer;    *)
(* the backend calls of a search may raise.  A process                     *)
(* killed inside _save_index leaves the files as a write that raises does. *)
(***************************************************************************)
EXTENDS Integers, Sequences, FiniteSets, TLC

VARIABLES
    index,      \* self.index: the vectors of the IndexFlatIP, in insertion order
    documents,  \* self.documents: the chunk records, parallel to index
    metadata,   \* self.metadata: the counters
    disk,       \* db_path: faiss.index, documents.pkl, metadata.json
    pc,         \* position of the writer inside the running operation
    call,       \* locals of the running operation
    last,       \* what the operation that finished last was and returned,
                \* while no other one is running
    results,    \* the value a search call returned to its caller
    faults,     \* file reads and writes that have failed so far
    files,      \* documents_dir: the bytes of every discovered PDF
    cache,      \* cache_dir: one JSON file per (product, stem, content hash)
    seen,       \* the files process_document was called for, bytes unchanged since
    proc,       \* what the last process_document call did and returned
    rag_manager, \* chatbot.rag_manager of the session in front is not None
    sessions,   \* PMChatbot objects constructed in this process
    workers,    \* init_db threads started in this process
    parked      \* the thread that is not running: its role, pc and call

docVars == <<files, cache, seen, proc>>
appVars == <<rag_manager, sessions, workers, parked>>
vars == <<index, documents, metadata, disk, pc, call, last, results, faults,
          files, cache, seen, proc, rag_manager, sessions, workers, parked>>

(***************************************************************************)
(* Program constants and bounds                                            *)
(***************************************************************************)
chunk_size == 1000
chunk_overlap == 200

MaxDocs == 2     \* longest documents_data list handed to rebuild_index
MaxChunks == 3   \* add_document is called directly while the result fits
MaxFaults == 1   \* file reads and writes that fail in one behaviour
MaxTopK == 2     \* largest top_k searched with

Products == {"general", "openshift_ai"}

Min(a, b) == IF a <= b THEN a ELSE b

RECURSIVE Flatten(_)
Flatten(ss) == IF ss = <<>> THEN <<>> ELSE Head(ss) \o Flatten(Tail(ss))

(***************************************************************************)
(* Contents and document records                                           *)
(***************************************************************************)
EmptyContent == [kind |-> "empty"]    \* ''
BlankContent == [kind |-> "blank"]    \* whitespace only
Text(cid, sections) == [kind |-> "text", cid |-> cid, sections |-> sections]

\* bool(content) and bool(content.strip())
Truthy(content) == content.kind # "empty"
NonBlank(content) == content.kind = "text"

DocA == [filename |-> "a.pdf", product |-> "general",
         product_name |-> "Red Hat AI General",
         content |-> Text(1, <<500>>), success |-> TRUE]
DocB == [filename |-> "b.pdf", product |-> "openshift_ai",
         content |-> Text(2, <<1500>>), success |-> TRUE]
DocW == [filename |-> "w.pdf", product |-> "general",
         content |-> BlankContent, success |-> TRUE]
DocE == [filename |-> "e.pdf", product |-> "openshift_ai",
         content |-> EmptyContent, success |-> FALSE]
DocPool == {DocA, DocB, DocW, DocE}

DocLists == UNION {[1..n -> DocPool] : n \in 0..MaxDocs}

(***************************************************************************)
(* TextChunker                                                             *)
(***************************************************************************)
\* the while loop without min() at line 111: a chunk may end past the words
RECURSIVE WindowsUnclipped(_, _, _, _)
WindowsUnclipped(cid, section_idx, nwords, w) ==
    LET start_idx == w.start_idx
        end_idx == start_idx + chunk_size
        chunk == [text |-> [cid |-> cid, section |-> section_idx,
                            from |-> start_idx, to |-> end_idx],
                  metadata |-> [section_idx |-> section_idx,
                                chunk_idx |-> w.chunk_idx,
                                word_count |-> end_idx - start_idx,
                                start_word |-> start_idx,
                                end_word |-> end_idx]]
    IN  IF ~(start_idx < nwords) THEN <<>>
        ELSE IF end_idx >= nwords THEN <<chunk>>
        ELSE <<chunk>> \o WindowsUnclipped(cid, section_idx, nwords,
                                  [start_idx |-> end_idx - chunk_overlap,
                                   chunk_idx |-> w.chunk_idx + 1])

\* the while loop going on from end_idx in place of line 131: no overlap
RECURSIVE WindowsNoOverlap(_, _, _, _)
WindowsNoOverlap(cid, section_idx, nwords, w) ==
    LET start_idx == w.start_idx
        end_idx == Min(start_idx + chunk_size, nwords)
        chunk == [text |-> [cid |-> cid, section |-> section_idx,
                            from |-> start_idx, to |-> end_idx],
                  metadata |-> [section_idx |-> section_idx,
                                chunk_idx |-> w.chunk_idx,
                                word_count |-> end_idx - start_idx,
                                start_word |-> start_idx,
                                end_word |-> end_idx]]
    IN  IF ~(start_idx < nwords) THEN <<>>
        ELSE IF end_idx >= nwords THEN <<chunk>>
        ELSE <<chunk>> \o WindowsNoOverlap(cid, section_idx, nwords,
                                  [start_idx |-> end_idx,
                                   chunk_idx |-> w.chunk_idx + 1])

\* the while loop of _chunk_section from start_idx on
RECURSIVE Windows(_, _, _, _)
Windows(cid, section_idx, nwords, w) ==
    LET start_idx == w.start_idx
        end_idx == Min(start_idx + chunk_size, nwords)
        chunk == [text |-> [cid |-> cid, section |-> section_idx,
                            from |-> start_idx, to |-> end_idx],
                  metadata |-> [section_idx |-> section_idx,
                                chunk_idx |-> w.chunk_idx,
                                word_count |-> end_idx - start_idx,
                                start_word |-> start_idx,
                                end_word |-> end_idx]]
    IN  IF ~(start_idx < nwords) THEN <<>>
        ELSE IF end_idx >= nwords THEN <<chunk>>
        ELSE <<chunk>> \o Windows(cid, section_idx, nwords,
                                  [start_idx |-> end_idx - chunk_overlap,
                                   chunk_idx |-> w.chunk_idx + 1])

\* _chunk_section without the loop: every section is emitted whole
ChunkSectionWhole(cid, section_idx, nwords) ==
    << [text |-> [cid |-> cid, section |-> section_idx,
                  from |-> 0, to |-> nwords],
        metadata |-> [section_idx |-> section_idx, chunk_idx |-> 0,
                      word_count |-> nwords]] >>

ChunkSection(cid, section_idx, nwords) ==
    IF nwords <= chunk_size
    THEN << [text |-> [cid |-> cid, section |-> section_idx,
                       from |-> 0, to |-> nwords],
             metadata |-> [section_idx |-> section_idx, chunk_idx |-> 0,
                           word_count |-> nwords]] >>
    ELSE Windows(cid, section_idx, nwords, [start_idx |-> 0, chunk_idx |-> 0])

\* chunk_text(text, metadata): every chunk carries a copy of the caller's
\* metadata (the whole document record) updated with the chunk's own
ChunkText(content, docmeta) ==
    IF ~Truthy(content) \/ content.kind = "blank" THEN <<>>
    ELSE LET secs == content.sections
             per == [s \in 1..Len(secs) |->
                        ChunkSection(content.cid, s - 1, secs[s])]
             flat == Flatten(per)
         IN  [i \in 1..Len(flat) |->
                [text |-> flat[i].text,
                 metadata |-> [doc |-> docmeta, chunk |-> flat[i].metadata]]]

(***************************************************************************)
(* Embedding model and IndexFlatIP                                         *)
(***************************************************************************)
Embed(text) == (2 * text.cid + (IF text.from = 0 THEN 0 ELSE 1)) % 4

Queries == {"", "gpu", "install"}
EmbedQuery(q) == IF q = "gpu" THEN 1 ELSE 2

\* inner product of two normalized vectors: largest for equal vectors
Score(qv, v) == IF qv >= v THEN 4 - (qv - v) ELSE 4 - (v - qv)

\* the nearest remaining position; equal scores go to the earlier insertion
Best(idx, qv, S) ==
    CHOOSE i \in S : \A j \in S :
        \/ Score(qv, idx[i]) > Score(qv, idx[j])
        \/ Score(qv, idx[i]) = Score(qv, idx[j]) /\ i <= j

\* index.search(qv, k): k (score, position) pairs, best first, positions
\* counted from 0; missing neighbours are reported as position -1
RECURSIVE IndexSearch(_, _, _, _)
IndexSearch(idx, qv, k, S) ==
    IF k <= 0 THEN <<>>
    ELSE IF S = {} THEN <<[score |-> -1, idx |-> -1]>> \o IndexSearch(idx, qv, k - 1, S)
    ELSE LET b == Best(idx, qv, S)
         IN  <<[score |-> Score(qv, idx[b]), idx |-> b - 1]>>
                 \o IndexSearch(idx, qv, k - 1, S \ {b})

(***************************************************************************)
(* VectorDatabase.search                                                   *)
(***************************************************************************)
NoFilter == "None"
Filters == {NoFilter} \cup Products
TopKs == 1..MaxTopK

\* Walk without the product filter of line 310
RECURSIVE WalkUnfiltered(_, _, _, _, _)
WalkUnfiltered(hits, docs, top_k, product_filter, acc) ==
    IF hits = <<>> THEN acc
    ELSE LET h == Head(hits)
         IN  IF h.idx >= 0 /\ h.idx < Len(docs)
             THEN LET d == docs[h.idx + 1]
                      doc == [text |-> d.text, metadata |-> d.metadata,
                              doc_id |-> d.doc_id,
                              embedding_id |-> d.embedding_id,
                              similarity_score |-> h.score]
                  IN  IF Len(acc) + 1 >= top_k
                      THEN Append(acc, doc)
                      ELSE WalkUnfiltered(Tail(hits), docs, top_k,
                                          product_filter, Append(acc, doc))
             ELSE WalkUnfiltered(Tail(hits), docs, top_k, product_filter, acc)

\* the for loop over zip(scores[0], indices[0])
RECURSIVE Walk(_, _, _, _, _)
Walk(hits, docs, top_k, product_filter, acc) ==
    IF hits = <<>> THEN acc
    ELSE LET h == Head(hits)
         IN  IF h.idx >= 0 /\ h.idx < Len(docs)
             THEN LET d == docs[h.idx + 1]
                      doc == [text |-> d.text, metadata |-> d.metadata,
                              doc_id |-> d.doc_id,
                              embedding_id |-> d.embedding_id,
                              similarity_score |-> h.score]
                  IN  IF product_filter # NoFilter
                         /\ doc.metadata.doc.product # product_filter
                      THEN Walk(Tail(hits), docs, top_k, product_filter, acc)
                      ELSE IF Len(acc) + 1 >= top_k
                           THEN Append(acc, doc)
                           ELSE Walk(Tail(hits), docs, top_k, product_filter,
                                     Append(acc, doc))
             ELSE Walk(Tail(hits), docs, top_k, product_filter, acc)

\* search fetching every vector of the index in place of line 300
searchFetchesAll(idx, docs, query, top_k, product_filter) ==
    IF query = "" THEN <<>>
    ELSE IF Len(docs) = 0 THEN <<>>
    ELSE LET search_k == Len(idx)
             hits == IndexSearch(idx, EmbedQuery(query), search_k, DOMAIN idx)
         IN  Walk(hits, docs, top_k, product_filter, <<>>)

\* lines 288-318 when no backend call raises
search(idx, docs, query, top_k, product_filter) ==
    IF query = "" THEN <<>>
    ELSE IF Len(docs) = 0 THEN <<>>
    ELSE LET search_k == Min(top_k * 2, Len(docs))
             hits == IndexSearch(idx, EmbedQuery(query), search_k, DOMAIN idx)
         IN  Walk(hits, docs, top_k, product_filter, <<>>)

\* what the backend calls of one search do: both answer, or encode (line
\* 297) raises, or index.search (line 301) raises
Backends == {"ok", "encode_raises", "search_raises"}

\* search without its try: a backend error leaves the function as raised
SearchPropagates(idx, docs, query, top_k, product_filter, backend) ==
    IF query = "" \/ Len(docs) = 0
    THEN [out |-> <<>>, raised |-> FALSE]
    ELSE IF backend # "ok"
         THEN [out |-> <<>>, raised |-> TRUE]
         ELSE [out |-> search(idx, docs, query, top_k, product_filter),
               raised |-> FALSE]

\* VectorDatabase.search as its caller sees it: the list returned, and
\* whether an exception left the function; lines 320-322 turn every error of
\* the try block into an empty list
SearchOutcome(idx, docs, query, top_k, product_filter, backend) ==
    IF query = "" \/ Len(docs) = 0
    THEN [out |-> <<>>, raised |-> FALSE]
    ELSE IF backend # "ok"
         THEN [out |-> <<>>, raised |-> FALSE]
         ELSE [out |-> search(idx, docs, query, top_k, product_filter),
               raised |-> FALSE]

(***************************************************************************)
(* Counters                                                                *)
(***************************************************************************)
NewMetadata == [total_documents |-> 0, total_chunks |-> 0, products |-> <<>>]

\* lines 269-280 of add_document
CountDocument(md, product, n) ==
    LET ps == md.products
        old == IF product \in DOMAIN ps THEN ps[product]
               ELSE [document_count |-> 0, chunk_count |-> 0]
    IN  [total_documents |-> md.total_documents + 1,
         total_chunks |-> md.total_chunks + n,
         products |-> [p \in (DOMAIN ps) \cup {product} |->
                         IF p = product
                         THEN [document_count |-> old.document_count + 1,
                               chunk_count |-> old.chunk_count + n]
                         ELSE ps[p]]]

\* lines 260-267 of add_document
StoreChunks(docs, chunks) ==
    docs \o [i \in 1..Len(chunks) |->
                [text |-> chunks[i].text, metadata |-> chunks[i].metadata,
                 doc_id |-> Len(docs) + i - 1,
                 embedding_id |-> Len(docs) + i - 1]]

\* line 257 of add_document
IndexAdd(idx, chunks) == idx \o [i \in 1..Len(chunks) |-> Embed(chunks[i].text)]

(***************************************************************************)
(* Persistence                                                             *)
(***************************************************************************)
Absent == [st |-> "absent"]
Corrupt == [st |-> "corrupt"]
File(data) == [st |-> "ok", data |-> data]
Exists(f) == f.st # "absent"
Readable(f) == f.st = "ok"

EmptyDisk == [index |-> Absent, documents |-> Absent, metadata |-> Absent]

\* _load_or_create_index returning from the except clause: an index that was
\* read stays although the documents could not be read
LoadKeepsIndexWithoutDocuments(d, readFail) ==
    LET fresh == [index |-> <<>>, documents |-> <<>>, metadata |-> NewMetadata]
        indexOk == Readable(d.index) /\ readFail # "index"
        docsOk == Readable(d.documents) /\ readFail # "documents"
        metaOk == Readable(d.metadata) /\ readFail # "metadata"
    IN  IF Exists(d.index) /\ Exists(d.documents)
        THEN IF ~indexOk THEN fresh
             ELSE IF ~docsOk
                  THEN [index |-> d.index.data, documents |-> <<>>,
                        metadata |-> NewMetadata]
                  ELSE IF ~Exists(d.metadata)
                       THEN [index |-> d.index.data,
                             documents |-> d.documents.data,
                             metadata |-> NewMetadata]
                       ELSE IF ~metaOk
                            THEN [index |-> d.index.data,
                                  documents |-> d.documents.data,
                                  metadata |-> NewMetadata]
                            ELSE [index |-> d.index.data,
                                  documents |-> d.documents.data,
                                  metadata |-> d.metadata.data]
        ELSE fresh

\* _load_or_create_index that never reads faiss.index: the documents are
\* loaded beside a new, empty index
LoadSkipsIndexFile(d, readFail) ==
    LET fresh == [index |-> <<>>, documents |-> <<>>, metadata |-> NewMetadata]
        docsOk == Readable(d.documents) /\ readFail # "documents"
        metaOk == Readable(d.metadata) /\ readFail # "metadata"
    IN  IF Exists(d.index) /\ Exists(d.documents)
        THEN IF ~docsOk THEN fresh
             ELSE IF ~Exists(d.metadata)
                  THEN [index |-> <<>>, documents |-> d.documents.data,
                        metadata |-> NewMetadata]
                  ELSE IF ~metaOk THEN fresh
                       ELSE [index |-> <<>>, documents |-> d.documents.data,
                             metadata |-> d.metadata.data]
        ELSE fresh

\* _load_or_create_index on a database whose fields __init__ has just set;
\* readFail names the file whose read raises although the file is intact
LoadOrCreateIndex(d, readFail) ==
    LET fresh == [index |-> <<>>, documents |-> <<>>, metadata |-> NewMetadata]
        indexOk == Readable(d.index) /\ readFail # "index"
        docsOk == Readable(d.documents) /\ readFail # "documents"
        metaOk == Readable(d.metadata) /\ readFail # "metadata"
    IN  IF Exists(d.index) /\ Exists(d.documents)
        THEN IF ~indexOk \/ ~docsOk THEN fresh
             ELSE IF ~Exists(d.metadata)
                  THEN [index |-> d.index.data, documents |-> d.documents.data,
                        metadata |-> NewMetadata]
                  ELSE IF ~metaOk THEN fresh
                       ELSE [index |-> d.index.data,
                             documents |-> d.documents.data,
                             metadata |-> d.metadata.data]
        ELSE fresh

(***************************************************************************)
(* DocumentManager: the documents directory and the conversion cache       *)
(***************************************************************************)
MaxVersions == 2   \* contents a file goes through

Files == {"a.pdf", "b.pdf"}
FileProduct(f) == IF f = "a.pdf" THEN "general" ELSE "openshift_ai"

\* self.products[product]['name']
ProductName(product) == IF product = "general" THEN "Red Hat AI General"
                        ELSE "Red Hat OpenShift AI"

\* the markdown the conversion service gives for version v of file f
FileText(f, v) == IF f = "a.pdf" THEN Text(2 * v - 1, <<500>>)
                                 ELSE Text(2 * v, <<1500>>)

\* the plain text a local library extracts from the same bytes
LocalText(f, v) == IF f = "a.pdf" THEN Text(2 * v + 9, <<500>>)
                                  ELSE Text(2 * v + 10, <<1500>>)

\* get_cache_path: product, stem and the md5 of the bytes
CacheKey(f, v) == <<FileProduct(f), f, v>>
CacheKeys == {CacheKey(f, v) : f \in Files, v \in 1..MaxVersions}

\* discover_documents lists the files in the order the file system gives
Discoveries == {<<"a.pdf", "b.pdf">>, <<"b.pdf", "a.pdf">>}

\* what one request to an endpoint of the service does: a 200 response with
\* or without content, another status, an exception, a timeout
EndpointOutcomes == {"text", "empty", "status", "exception", "timeout"}

\* what local extraction does: PyPDF2 or, when it is not installed,
\* pdfplumber extracts text or none, neither is installed, or one raises
LocalOutcomes == {"pypdf2_text", "pypdf2_blank", "pdfplumber_text",
                  "pdfplumber_blank", "no_library", "raises"}

\* _fallback_pdf_extract
FallbackPdfExtract(local) ==
    IF local = "pypdf2_text"
    THEN [success |-> TRUE, outcome |-> "local_text", method |-> "PyPDF2_fallback"]
    ELSE IF local = "pypdf2_blank"
    THEN [success |-> TRUE, outcome |-> "blank", method |-> "PyPDF2_fallback"]
    ELSE IF local = "pdfplumber_text"
    THEN [success |-> TRUE, outcome |-> "local_text", method |-> "pdfplumber_fallback"]
    ELSE IF local = "pdfplumber_blank"
    THEN [success |-> TRUE, outcome |-> "blank", method |-> "pdfplumber_fallback"]
    ELSE [success |-> FALSE, outcome |-> "fail", method |-> "none"]

\* convert_pdf: the two endpoints in turn, the first 200 response is
\* returned; local extraction when both requests failed
ConvertPdfAttempts(e1, e2, local) ==
    IF e1 \in {"text", "empty"}
    THEN [success |-> TRUE, outcome |-> IF e1 = "text" THEN "text" ELSE "blank",
          method |-> "Docling_API"]
    ELSE IF e2 \in {"text", "empty"}
    THEN [success |-> TRUE, outcome |-> IF e2 = "text" THEN "text" ELSE "blank",
          method |-> "Docling_API"]
    ELSE FallbackPdfExtract(local)

\* the outcomes of convert_pdf: text from the service, text from a local
\* library, a success with nothing but whitespace (a scanned PDF), or a
\* failure with its error
ConvOutcomes ==
    {ConvertPdfAttempts(e1, e2, local).outcome :
        e1 \in EndpointOutcomes, e2 \in EndpointOutcomes, local \in LocalOutcomes}

\* the result of convert_pdf on version v of file f, by outcome
ConvertPdf(f, v, o) ==
    IF o = "text" THEN [success |-> TRUE, content |-> FileText(f, v)]
    ELSE IF o = "local_text" THEN [success |-> TRUE, content |-> LocalText(f, v)]
    ELSE IF o = "blank" THEN [success |-> TRUE, content |-> BlankContent]
    ELSE [success |-> FALSE, content |-> EmptyContent]

None == [none |-> TRUE]
NoProc == [op |-> "none"]

(***************************************************************************)
(* State after VectorDatabase.__init__ on an empty db_path, with an empty  *)
(* cache directory                                                         *)
(***************************************************************************)
NoCall == [op |-> "none"]
NoResult == [query |-> "none"]
NoSummary == [total_docs |-> 0]
NoLast == [op |-> "none"]
NoThread == [role |-> "none"]

Init ==
    /\ index = <<>>
    /\ documents = <<>>
    /\ metadata = NewMetadata
    /\ disk = EmptyDisk
    /\ pc = "idle"
    /\ call = NoCall
    /\ last = [op |-> "construct", readFail |-> "none"]
    /\ results = NoResult
    /\ faults = 0
    /\ files = [f \in Files |-> 1]
    /\ cache = [k \in CacheKeys |-> Absent]
    /\ seen = {}
    /\ proc = NoProc
    /\ rag_manager = FALSE
    /\ sessions = 0
    /\ workers = 0
    /\ parked = NoThread

\* the writer runs between two deliveries of a search result
WriterAt(p) == pc = p /\ results = NoResult

CanFail == faults < MaxFaults

(***************************************************************************)
(* VectorDatabase.__init__ of a restarted process on the same db_path      *)
(***************************************************************************)
Construct(readFail) ==
    /\ UNCHANGED <<docVars, appVars>>
    /\ WriterAt("idle")
    /\ readFail # "none" => CanFail /\ Readable(disk[readFail])
    /\ LET db == LoadOrCreateIndex(disk, readFail)
       IN  /\ index' = db.index
           /\ documents' = db.documents
           /\ metadata' = db.metadata
    /\ last' = [op |-> "construct", readFail |-> readFail]
    /\ faults' = IF readFail = "none" THEN faults ELSE faults + 1
    /\ UNCHANGED <<disk, pc, call, results>>

(***************************************************************************)
(* VectorDatabase.add_document                                             *)
(***************************************************************************)
\* the value add_document returns, to rebuild_index or to an outside caller
AddReturns(c, n) ==
    IF c.op = "rebuild"
    THEN /\ pc' = "rb_loop"
         /\ call' = [c EXCEPT !.total_added = @ + n]
         /\ UNCHANGED last
    ELSE /\ pc' = "idle"
         /\ call' = NoCall
         /\ last' = [op |-> "add", doc |-> c.doc, ret |-> n]

\* lines 240-257: the two early returns, the embedding of the chunks and
\* index.add
AddBegin(c) ==
    LET chunks == ChunkText(c.doc.content, c.doc)
    IN  \/ /\ ~NonBlank(c.doc.content) \/ chunks = <<>>
           /\ AddReturns(c, 0)
           /\ UNCHANGED <<index, documents, metadata, disk, results, faults>>
        \/ /\ NonBlank(c.doc.content) /\ chunks # <<>>
           /\ index' = IndexAdd(index, chunks)
           /\ pc' = "ad_docs"
           /\ call' = [c EXCEPT !.chunks = chunks]
           /\ last' = NoLast
           /\ UNCHANGED <<documents, metadata, disk, results, faults>>

AddDocument(doc) ==
    /\ UNCHANGED <<docVars, appVars>>
    /\ WriterAt("idle")
    /\ Len(documents) + Len(ChunkText(doc.content, doc)) <= MaxChunks
    /\ AddBegin([op |-> "add", doc |-> doc, chunks |-> <<>>])

\* lines 260-267
AddStore ==
    /\ UNCHANGED <<docVars, appVars>>
    /\ WriterAt("ad_docs")
    /\ documents' = StoreChunks(documents, call.chunks)
    /\ pc' = "ad_meta"
    /\ UNCHANGED <<index, metadata, disk, call, last, results, faults>>

\* lines 269-284
AddCount ==
    /\ UNCHANGED <<docVars, appVars>>
    /\ WriterAt("ad_meta")
    /\ metadata' = CountDocument(metadata, call.doc.product, Len(call.chunks))
    /\ AddReturns(call, Len(call.chunks))
    /\ UNCHANGED <<index, documents, disk, results, faults>>

(***************************************************************************)
(* VectorDatabase._save_index: three writes inside one try; the first      *)
(* write that raises ends the save, and the error is logged and swallowed  *)
(***************************************************************************)
SaveEnds(saved) ==
    /\ pc' = "idle"
    /\ call' = NoCall
    /\ last' = [op |-> call.op, docs |-> call.docs, saved |-> saved,
                ret |-> call.total_added, repeat |-> call.repeat,
                before |-> call.before, by |-> call.by,
                summary |-> call.summary]

\* _save_index called on the database as it stands
SaveIndex ==
    /\ UNCHANGED <<docVars, appVars>>
    /\ WriterAt("idle")
    /\ pc' = "sv_index"
    /\ call' = [op |-> "save", docs |-> <<>>, todo |-> <<>>, doc |-> DocE,
                chunks |-> <<>>, total_added |-> 0, repeat |-> FALSE,
                before |-> NewMetadata, by |-> "caller",
                summary |-> NoSummary]
    /\ last' = NoLast
    /\ UNCHANGED <<index, documents, metadata, disk, results, faults>>

\* one write of file f with contents data: it succeeds, or it raises before
\* the file is touched, or it raises with the file left truncated
SaveWrite(f, data, next) ==
    \/ /\ disk' = [disk EXCEPT ![f] = File(data)]
       /\ IF next = "idle" THEN SaveEnds(TRUE)
                           ELSE pc' = next /\ UNCHANGED <<call, last>>
       /\ UNCHANGED faults
    \/ /\ CanFail
       /\ faults' = faults + 1
       /\ \/ UNCHANGED disk
          \/ disk' = [disk EXCEPT ![f] = Corrupt]
       /\ SaveEnds(FALSE)

SaveIndexFile ==
    /\ UNCHANGED <<docVars, appVars>>
    /\ WriterAt("sv_index")
    /\ SaveWrite("index", index, "sv_docs")
    /\ UNCHANGED <<index, documents, metadata, results>>

\* _save_index without its third write: metadata.json is never written
SaveDocumentsFileEndsSave ==
    /\ UNCHANGED <<docVars, appVars>>
    /\ WriterAt("sv_docs")
    /\ SaveWrite("documents", documents, "idle")
    /\ UNCHANGED <<index, documents, metadata, results>>

SaveDocumentsFile ==
    /\ UNCHANGED <<docVars, appVars>>
    /\ WriterAt("sv_docs")
    /\ SaveWrite("documents", documents, "sv_meta")
    /\ UNCHANGED <<index, documents, metadata, results>>

SaveMetadataFile ==
    /\ UNCHANGED <<docVars, appVars>>
    /\ WriterAt("sv_meta")
    /\ SaveWrite("metadata", metadata, "idle")
    /\ UNCHANGED <<index, documents, metadata, results>>

(***************************************************************************)
(* VectorDatabase.rebuild_index                                            *)
(***************************************************************************)
\* counters as get_stats reports them
Counts(md) == [total_documents |-> md.total_documents,
               total_chunks |-> md.total_chunks,
               products |-> md.products]

\* line 344: the index is replaced first
RebuildBegins(docs, by, summary) ==
    /\ index' = <<>>
    /\ pc' = "rb_docs"
    /\ call' = [op |-> "rebuild", docs |-> docs, todo |-> docs,
                doc |-> DocE, chunks |-> <<>>, total_added |-> 0,
                repeat |-> (last.op = "rebuild" /\ last.docs = docs),
                before |-> IF last.op = "rebuild" /\ last.docs = docs
                           THEN Counts(metadata) ELSE NewMetadata,
                by |-> by, summary |-> summary]
    /\ last' = NoLast
    /\ UNCHANGED <<documents, metadata, disk, results, faults>>

\* rebuild_index called with a list of document records
RebuildIndex(docs) ==
    /\ UNCHANGED <<docVars, appVars>>
    /\ WriterAt("idle")
    /\ RebuildBegins(docs, "caller", NoSummary)

\* rebuild_index without line 346: the old chunks stay
RebuildDocumentsKeepsChunks ==
    /\ UNCHANGED <<docVars, appVars>>
    /\ WriterAt("rb_docs")
    /\ pc' = "rb_meta"
    /\ UNCHANGED <<index, documents, metadata, disk, call, last, results, faults>>

\* line 346
RebuildDocuments ==
    /\ UNCHANGED <<docVars, appVars>>
    /\ WriterAt("rb_docs")
    /\ documents' = <<>>
    /\ pc' = "rb_meta"
    /\ UNCHANGED <<index, metadata, disk, call, last, results, faults>>

\* rebuild_index without lines 347-353: the counters go on from the old ones
RebuildMetadataKeepsCounters ==
    /\ UNCHANGED <<docVars, appVars>>
    /\ WriterAt("rb_meta")
    /\ pc' = "rb_loop"
    /\ UNCHANGED <<index, documents, metadata, disk, call, last, results, faults>>

\* lines 347-353
RebuildMetadata ==
    /\ UNCHANGED <<docVars, appVars>>
    /\ WriterAt("rb_meta")
    /\ metadata' = NewMetadata
    /\ pc' = "rb_loop"
    /\ UNCHANGED <<index, documents, disk, call, last, results, faults>>

\* lines 357-360: the next supplied document, skipped when its content is
\* falsy, handed to add_document otherwise
RebuildNext ==
    /\ UNCHANGED <<docVars, appVars>>
    /\ WriterAt("rb_loop")
    /\ call.todo # <<>>
    /\ LET doc_data == Head(call.todo)
           c == [call EXCEPT !.todo = Tail(@), !.doc = doc_data]
       IN  IF Truthy(doc_data.content)
           THEN AddBegin(c)
           ELSE /\ call' = c
                /\ UNCHANGED <<index, documents, metadata, disk, pc, last,
                               results, faults>>

\* rebuild_index without line 363: it returns with nothing written
RebuildSaveReturnsUnsaved ==
    /\ UNCHANGED <<docVars, appVars>>
    /\ WriterAt("rb_loop")
    /\ call.todo = <<>>
    /\ SaveEnds(FALSE)
    /\ UNCHANGED <<index, documents, metadata, disk, results, faults>>

\* line 363
RebuildSave ==
    /\ UNCHANGED <<docVars, appVars>>
    /\ WriterAt("rb_loop")
    /\ call.todo = <<>>
    /\ pc' = "sv_index"
    /\ UNCHANGED <<index, documents, metadata, disk, call, last, results, faults>>

(***************************************************************************)
(* VectorDatabase.clear_database                                           *)
(***************************************************************************)
ClearIndex ==
    /\ UNCHANGED <<docVars, appVars>>
    /\ WriterAt("idle")
    /\ index' = <<>>
    /\ pc' = "cl_docs"
    /\ call' = [op |-> "clear", docs |-> <<>>, todo |-> <<>>, doc |-> DocE,
                chunks |-> <<>>, total_added |-> 0, repeat |-> FALSE,
                before |-> NewMetadata, by |-> "caller",
                summary |-> NoSummary]
    /\ last' = NoLast
    /\ UNCHANGED <<documents, metadata, disk, results, faults>>

ClearDocuments ==
    /\ UNCHANGED <<docVars, appVars>>
    /\ WriterAt("cl_docs")
    /\ documents' = <<>>
    /\ pc' = "cl_meta"
    /\ UNCHANGED <<index, metadata, disk, call, last, results, faults>>

ClearMetadata ==
    /\ UNCHANGED <<docVars, appVars>>
    /\ WriterAt("cl_meta")
    /\ metadata' = NewMetadata
    /\ pc' = "sv_index"
    /\ UNCHANGED <<index, documents, disk, call, last, results, faults>>

(***************************************************************************)
(* A search call of a reader, and its caller taking the result             *)
(***************************************************************************)
Search(query, top_k, product_filter, backend) ==
    /\ UNCHANGED <<docVars, appVars>>
    /\ results = NoResult
    /\ LET r == SearchOutcome(index, documents, query, top_k, product_filter,
                              backend)
       IN  results' = [query |-> query, top_k |-> top_k,
                       product_filter |-> product_filter,
                       backend |-> backend,
                       out |-> r.out, raised |-> r.raised]
    /\ UNCHANGED <<index, documents, metadata, disk, pc, call, last, faults>>

SearchReturn ==
    /\ UNCHANGED <<docVars, appVars>>
    /\ results # NoResult
    /\ results' = NoResult
    /\ UNCHANGED <<index, documents, metadata, disk, pc, call, last, faults>>

(***************************************************************************)
(* DocumentManager.process_document                                        *)
(***************************************************************************)
\* save_to_cache that removes the file when the write raises
SaveToCacheUnlinks(c, key, data, io) ==
    IF io \in {"save_fails", "save_truncates"} THEN [c EXCEPT ![key] = Absent]
    ELSE [c EXCEPT ![key] = File(data)]

\* load_from_cache: the parsed record, or None when the file is missing or
\* json.load raises
LoadFromCache(c, key, io) ==
    IF Readable(c[key]) /\ io # "load_fails" THEN c[key].data ELSE None

\* save_to_cache: the write succeeds, or raises before the file is opened,
\* or raises with the file left truncated; the error is logged and swallowed
SaveToCache(c, key, data, io) ==
    IF io = "save_fails" THEN c
    ELSE IF io = "save_truncates" THEN [c EXCEPT ![key] = Corrupt]
    ELSE [c EXCEPT ![key] = File(data)]

\* lines 377-386 and 394-408: the record of a conversion and the record of
\* a failed one
ProcessedData(f, result) ==
    [filename |-> f, product |-> FileProduct(f),
     product_name |-> ProductName(FileProduct(f)),
     content |-> result.content, success |-> TRUE]

ErrorData(f) ==
    [filename |-> f, product |-> FileProduct(f),
     product_name |-> ProductName(FileProduct(f)),
     content |-> EmptyContent, success |-> FALSE]

\* process_document(file_path, product, force_refresh) on cache c, with the
\* converter answering o and the cache file access going as io says: the
\* record returned, the cache left, and whether the converter was invoked
ProcessDocument(c, f, v, force_refresh, o, io) ==
    LET key == CacheKey(f, v)
        cached_data == LoadFromCache(c, key, io)
        result == ConvertPdf(f, v, o)
    IN  IF ~force_refresh /\ Exists(c[key]) /\ cached_data # None
        THEN [ret |-> cached_data, cache |-> c, hit |-> TRUE,
              converted |-> FALSE]
        ELSE IF result.success /\ NonBlank(result.content)
             THEN [ret |-> ProcessedData(f, result),
                   cache |-> SaveToCache(c, key, ProcessedData(f, result), io),
                   hit |-> FALSE, converted |-> TRUE]
             ELSE [ret |-> ErrorData(f), cache |-> c, hit |-> FALSE,
                   converted |-> TRUE]

IoModes == {"ok", "load_fails", "save_fails", "save_truncates"}

\* one call of process_document and what it leaves behind
Processes(f, force_refresh, o, io, r) ==
    /\ io # "ok" => CanFail
    /\ io = "load_fails" => ~force_refresh /\ Readable(cache[CacheKey(f, files[f])])
    /\ io \in {"save_fails", "save_truncates"} => o = "text"
    /\ r = ProcessDocument(cache, f, files[f], force_refresh, o, io)
    /\ cache' = r.cache
    /\ seen' = seen \cup {f}
    /\ proc' = [op |-> "process_document", file |-> f,
                key |-> CacheKey(f, files[f]), force_refresh |-> force_refresh,
                again |-> f \in seen, io |-> io,
                hit |-> r.hit, converted |-> r.converted,
                outcome |-> IF r.converted THEN o ELSE "cached", ret |-> r.ret]
    /\ faults' = IF io = "ok" THEN faults ELSE faults + 1
    /\ UNCHANGED files

\* process_document called on its own
ProcessDocumentCall(f, force_refresh, o, io) ==
    /\ WriterAt("idle")
    /\ \E r \in {ProcessDocument(cache, f, files[f], force_refresh, o, io)} :
          Processes(f, force_refresh, o, io, r)
    /\ UNCHANGED <<index, documents, metadata, disk, pc, call, last, results>>
    /\ UNCHANGED appVars

\* the bytes of a file change between two calls
ModifyFile(f) ==
    /\ WriterAt("idle")
    /\ files[f] < MaxVersions
    /\ files' = [files EXCEPT ![f] = @ + 1]
    /\ seen' = seen \ {f}
    /\ proc' = NoProc
    /\ UNCHANGED <<index, documents, metadata, disk, pc, call, last, results,
                   faults, cache>>
    /\ UNCHANGED appVars

(***************************************************************************)
(* RAGManager.initialize_database, through process_all_documents,          *)
(* get_processed_documents and rebuild_index                               *)
(***************************************************************************)
\* line 406, and lines 414-422 of process_all_documents
InitializeBegins(force_refresh, order) ==
    /\ pc' = "pa_loop"
    /\ call' = [op |-> "init", force_refresh |-> force_refresh,
                order |-> order, todo |-> order,
                summary |-> [total_docs |-> 0, successful |-> 0, failed |-> 0,
                             errors |-> <<>>, processed |-> <<>>]]
    /\ proc' = NoProc
    /\ last' = NoLast
    /\ UNCHANGED <<index, documents, metadata, disk, results, faults,
                   files, cache, seen>>

\* initialize_database called while nothing else runs
InitializeDatabase(force_refresh, order) ==
    /\ WriterAt("idle")
    /\ InitializeBegins(force_refresh, order)
    /\ UNCHANGED appVars

\* lines 424-442 of process_all_documents for the next discovered document
\* (every product directory holds one)
Tally(sm, f, result) ==
    IF result.success /\ NonBlank(result.content)
    THEN [sm EXCEPT !.total_docs = @ + 1, !.successful = @ + 1,
                    !.processed = Append(@, result)]
    ELSE [sm EXCEPT !.total_docs = @ + 1, !.failed = @ + 1,
                    !.errors = Append(@, f),
                    !.processed = Append(@, result)]

\* process_all_documents giving up at the first document that fails
ProcessAllNextStopsAtFailure(o, io) ==
    /\ WriterAt("pa_loop")
    /\ call.todo # <<>>
    /\ LET f == Head(call.todo)
       IN  \E r \in {ProcessDocument(cache, f, files[f], call.force_refresh, o, io)} :
              /\ Processes(f, call.force_refresh, o, io, r)
              /\ call' = [call EXCEPT
                            !.todo = IF r.ret.success THEN Tail(@) ELSE <<>>,
                            !.summary = Tally(@, f, r.ret)]
    /\ UNCHANGED <<index, documents, metadata, disk, pc, last, results>>
    /\ UNCHANGED appVars

ProcessAllNext(o, io) ==
    /\ WriterAt("pa_loop")
    /\ call.todo # <<>>
    /\ LET f == Head(call.todo)
       IN  \E r \in {ProcessDocument(cache, f, files[f], call.force_refresh, o, io)} :
              /\ Processes(f, call.force_refresh, o, io, r)
              /\ call' = [call EXCEPT !.todo = Tail(@),
                                      !.summary = Tally(@, f, r.ret)]
    /\ UNCHANGED <<index, documents, metadata, disk, pc, last, results>>
    /\ UNCHANGED appVars

\* initialize_database emptying the database before it reports the failure
InitializeRefusesAndClears ==
    /\ WriterAt("pa_loop")
    /\ call.todo = <<>>
    /\ call.summary.successful = 0
    /\ pc' = "idle"
    /\ call' = NoCall
    /\ last' = [op |-> "init", success |-> FALSE, summary |-> call.summary]
    /\ index' = <<>>
    /\ documents' = <<>>
    /\ metadata' = NewMetadata
    /\ UNCHANGED <<disk, results, faults, files, cache, seen, proc>>
    /\ UNCHANGED appVars

\* lines 408-413: nothing was processed successfully
InitializeRefuses ==
    /\ WriterAt("pa_loop")
    /\ call.todo = <<>>
    /\ call.summary.successful = 0
    /\ pc' = "idle"
    /\ call' = NoCall
    /\ last' = [op |-> "init", success |-> FALSE, summary |-> call.summary]
    /\ UNCHANGED <<index, documents, metadata, disk, results, faults,
                   files, cache, seen, proc>>
    /\ UNCHANGED appVars

\* get_processed_documents: the cache records of the discovered documents
GetProcessedDocuments(c, order) ==
    LET rec(i) == LoadFromCache(c, CacheKey(order[i], files[order[i]]), "ok")
    IN  Flatten([i \in 1..Len(order) |->
                    IF rec(i) # None THEN <<rec(i)>> ELSE <<>>])

\* lines 419-423: only successful documents with content
IndexableDocs(processed_docs) ==
    LET keep(doc) == doc.success /\ NonBlank(doc.content)
    IN  Flatten([i \in 1..Len(processed_docs) |->
                    IF keep(processed_docs[i]) THEN <<processed_docs[i]>>
                    ELSE <<>>])

\* initialize_database handing over the records process_all_documents
\* returned, unfiltered, in place of lines 416-423
InitializeRebuildsUnfiltered ==
    /\ WriterAt("pa_loop")
    /\ call.todo = <<>>
    /\ call.summary.successful # 0
    /\ RebuildBegins(call.summary.processed, "initialize_database",
                     call.summary)
    /\ UNCHANGED <<docVars, appVars>>

\* lines 416-426: the cached records are collected, filtered and handed to
\* rebuild_index
InitializeRebuilds ==
    /\ WriterAt("pa_loop")
    /\ call.todo = <<>>
    /\ call.summary.successful # 0
    /\ RebuildBegins(IndexableDocs(GetProcessedDocuments(cache, call.order)),
                     "initialize_database", call.summary)
    /\ UNCHANGED <<docVars, appVars>>

(***************************************************************************)
(* TextChunker.chunk_text applied to texts of up to MaxSections sections   *)
(***************************************************************************)
MaxSections == 2   \* sections of a text handed to the chunker

\* words of a section: short, at, just over and well over chunk_size
WordCounts == {1, 500, 1000, 1001, 1500, 1800, 1801, 2600}

Texts == {EmptyContent, BlankContent}
            \cup {Text(1, secs) : secs \in UNION {[1..n -> WordCounts] :
                                                   n \in 1..MaxSections}}

\* the metadata the caller of chunk_text passes
ChunkerMetadata == [filename |-> "t.pdf", product |-> "general"]

ChunkTextCall(text) ==
    /\ WriterAt("idle")
    /\ pc' = "ck_call"
    /\ call' = [op |-> "chunk_text", text |-> text]
    /\ last' = NoLast
    /\ UNCHANGED <<index, documents, metadata, disk, results, faults>>
    /\ UNCHANGED <<docVars, appVars>>

ChunkTextReturns ==
    /\ WriterAt("ck_call")
    /\ pc' = "idle"
    /\ call' = NoCall
    /\ last' = [op |-> "chunk_text", text |-> call.text,
                chunks |-> ChunkText(call.text, ChunkerMetadata)]
    /\ UNCHANGED <<index, documents, metadata, disk, results, faults>>
    /\ UNCHANGED <<docVars, appVars>>

NextChunker ==
    \/ \E text \in Texts : ChunkTextCall(text)
    \/ ChunkTextReturns

\* a chunker with the default sizes, called on one text after another
SpecChunker == Init /\ [][NextChunker]_vars

(***************************************************************************)
(* DoclingProcessor: construction and convert_pdf                          *)
(***************************************************************************)
\* DoclingProcessor(): DOCLING_API_KEY is set, or __init__ raises ValueError
DoclingInit(api_key) ==
    /\ WriterAt("idle")
    /\ last' = [op |-> "DoclingProcessor", api_key |-> api_key,
                raised |-> ~api_key]
    /\ UNCHANGED <<index, documents, metadata, disk, pc, call, results, faults>>
    /\ UNCHANGED <<docVars, appVars>>

\* a DoclingProcessor object exists
HasProcessor ==
    \/ last.op = "DoclingProcessor" /\ ~last.raised
    \/ last.op = "convert_pdf"

\* convert_pdf called on a PDF
ConvertPdfCall(e1, e2, local) ==
    /\ WriterAt("idle")
    /\ HasProcessor
    /\ last' = [op |-> "convert_pdf", e1 |-> e1, e2 |-> e2, local |-> local,
                result |-> ConvertPdfAttempts(e1, e2, local), raised |-> FALSE]
    /\ UNCHANGED <<index, documents, metadata, disk, pc, call, results, faults>>
    /\ UNCHANGED <<docVars, appVars>>

NextConverter ==
    \/ \E api_key \in BOOLEAN : DoclingInit(api_key)
    \/ \E e1 \in EndpointOutcomes, e2 \in EndpointOutcomes,
          local \in LocalOutcomes : ConvertPdfCall(e1, e2, local)

\* a process that constructs converters and converts PDFs with them
SpecConverter == Init /\ [][NextConverter]_vars

\* process_document called on files that change
NextCache ==
    \/ \E f \in Files, fr \in BOOLEAN, o \in ConvOutcomes, io \in IoModes :
          ProcessDocumentCall(f, fr, o, io)
    \/ \E f \in Files : ModifyFile(f)

SpecCache == Init /\ [][NextCache]_vars

NextDocs ==
    \/ \E f \in Files : ModifyFile(f)
    \/ \E fr \in BOOLEAN, order \in Discoveries : InitializeDatabase(fr, order)
    \/ \E o \in ConvOutcomes, io \in IoModes : ProcessAllNext(o, io)
    \/ InitializeRefuses
    \/ InitializeRebuilds
    \/ RebuildDocuments
    \/ RebuildMetadata
    \/ RebuildNext
    \/ RebuildSave
    \/ AddStore
    \/ AddCount
    \/ SaveIndexFile
    \/ SaveDocumentsFile
    \/ SaveMetadataFile

Next ==
    \/ \E rf \in {"none", "index", "documents", "metadata"} : Construct(rf)
    \/ \E d \in DocPool : AddDocument(d)
    \/ AddStore
    \/ AddCount
    \/ \E docs \in DocLists : RebuildIndex(docs)
    \/ RebuildDocuments
    \/ RebuildMetadata
    \/ RebuildNext
    \/ RebuildSave
    \/ ClearIndex
    \/ ClearDocuments
    \/ ClearMetadata
    \/ SaveIndex
    \/ SaveIndexFile
    \/ SaveDocumentsFile
    \/ SaveMetadataFile

\* the life of one database directory: operations, failures and restarts
Spec == Init /\ [][Next]_vars

\* the same start for behaviours in which no file read or write fails
InitNoFaults ==
    /\ index = <<>>
    /\ documents = <<>>
    /\ metadata = NewMetadata
    /\ disk = EmptyDisk
    /\ pc = "idle"
    /\ call = NoCall
    /\ last = [op |-> "construct", readFail |-> "none"]
    /\ results = NoResult
    /\ faults = MaxFaults
    /\ files = [f \in Files |-> 1]
    /\ cache = [k \in CacheKeys |-> Absent]
    /\ seen = {}
    /\ proc = NoProc
    /\ rag_manager = FALSE
    /\ sessions = 0
    /\ workers = 0
    /\ parked = NoThread

NextSearch ==
    \/ Next
    \/ \E q \in Queries, k \in TopKs, f \in Filters, b \in Backends :
          Search(q, k, f, b)
    \/ SearchReturn

\* process_document on files that change, with a file system that works
SpecCacheReliable == InitNoFaults /\ [][NextCache]_vars

\* the documents directory, the cache and the database they are indexed
\* in; conversions fail, the file system does not
SpecDocs == InitNoFaults /\ [][NextDocs]_vars

\* the operations with a reader searching at any point of them
SpecSearch == InitNoFaults /\ [][NextSearch]_vars

(***************************************************************************)
(* The application process: PMChatbot objects, one per UI session (and one *)
(* for the API server), the init_db thread a PMChatbot may start, and the  *)
(* 'Initialize Database' and 'Refresh All' buttons.  Two threads at most   *)
(* are followed: the one that runs owns pc and call, the other is parked.  *)
(* The behaviours are a part of those of the program: the UI thread runs   *)
(* an operation it began to its end before the init_db thread goes on.     *)
(* A session starts while no init_db thread is running, so that index,     *)
(* documents and metadata are those of the RAGManager built last.          *)
(***************************************************************************)
MaxSessions == 2

UiRuns == parked.role # "ui"
WorkerRunning == parked.role = "ui"

\* RAGManager() followed by _auto_initialize_rag_database: the database is
\* loaded from db_path, and a thread is started when it holds no chunks
NewRagManager ==
    LET db == LoadOrCreateIndex(disk, "none")
    IN  /\ index' = db.index
        /\ documents' = db.documents
        /\ metadata' = db.metadata
        /\ rag_manager' = TRUE
        /\ IF db.metadata.total_chunks = 0
           THEN /\ workers' = workers + 1
                /\ parked' = [role |-> "worker", pc |-> "wk_start",
                              call |-> NoCall]
           ELSE UNCHANGED <<workers, parked>>

\* a session without chatbot: PMChatbot() and, when its RAGManager() raised,
\* the retry of the session start
SessionStarts(ok, retry_ok) ==
    /\ WriterAt("idle")
    /\ parked = NoThread
    /\ sessions < MaxSessions
    /\ sessions' = sessions + 1
    /\ IF ok \/ retry_ok
       THEN NewRagManager
       ELSE /\ rag_manager' = FALSE
            /\ UNCHANGED <<index, documents, metadata, workers, parked>>
    /\ last' = NoLast
    /\ UNCHANGED <<disk, pc, call, results, faults>>
    /\ UNCHANGED docVars

\* 'Retry RAG Initialization', shown while rag_manager is None; a retry
\* whose RAGManager() raises again changes nothing
RetryButton ==
    /\ WriterAt("idle")
    /\ parked = NoThread
    /\ sessions > 0
    /\ ~rag_manager
    /\ NewRagManager
    /\ last' = NoLast
    /\ UNCHANGED <<disk, pc, call, results, faults, sessions>>
    /\ UNCHANGED docVars

\* 'Initialize Database' (force_refresh false) and 'Refresh All' (true)
InitializeButton(force_refresh, order) ==
    /\ UiRuns
    /\ rag_manager
    /\ WriterAt("idle")
    /\ InitializeBegins(force_refresh, order)
    /\ UNCHANGED appVars

\* init_db: the thread calls initialize_database()
WorkerRuns(order) ==
    /\ WorkerRunning
    /\ WriterAt("wk_start")
    /\ InitializeBegins(FALSE, order)
    /\ UNCHANGED appVars

\* init_db returns and the thread ends
WorkerExits ==
    /\ WorkerRunning
    /\ WriterAt("idle")
    /\ pc' = parked.pc
    /\ call' = parked.call
    /\ parked' = NoThread
    /\ UNCHANGED <<index, documents, metadata, disk, last, results, faults,
                   rag_manager, sessions, workers>>
    /\ UNCHANGED docVars

\* the interpreter hands control to the other thread: the init_db thread is
\* suspended at any of its steps, the UI thread between two operations
Switch ==
    /\ parked # NoThread
    /\ WorkerRunning \/ pc = "idle"
    /\ results = NoResult
    /\ pc' = parked.pc
    /\ call' = parked.call
    /\ parked' = [role |-> IF parked.role = "ui" THEN "worker" ELSE "ui",
                  pc |-> pc, call |-> call]
    /\ UNCHANGED <<index, documents, metadata, disk, last, results, faults,
                   rag_manager, sessions, workers>>
    /\ UNCHANGED docVars

\* the documents directory is listed in one order, and a conversion gives
\* the converter's text or fails
AppOrder == <<"a.pdf", "b.pdf">>
AppOutcomes == {"text", "fail"}

NextApp ==
    \/ \E ok \in BOOLEAN, retry_ok \in BOOLEAN : SessionStarts(ok, retry_ok)
    \/ RetryButton
    \/ \E fr \in BOOLEAN, order \in {AppOrder} : InitializeButton(fr, order)
    \/ \E order \in {AppOrder} : WorkerRuns(order)
    \/ WorkerExits
    \/ Switch
    \/ \E o \in AppOutcomes, io \in {"ok"} : ProcessAllNext(o, io)
    \/ InitializeRefuses
    \/ InitializeRebuilds
    \/ RebuildDocuments
    \/ RebuildMetadata
    \/ RebuildNext
    \/ RebuildSave
    \/ AddStore
    \/ AddCount
    \/ SaveIndexFile
    \/ SaveDocumentsFile
    \/ SaveMetadataFile

\* the sessions of one process and their threads, with a file system that
\* works
SpecApp == InitNoFaults /\ [][NextApp]_vars

(***************************************************************************)
(* TextChunker._chunk_section of a chunker constructed with any sizes, one *)
(* iteration of its while loop at a time.  The loop is followed for        *)
(* MaxLoop iterations: a call that has not returned by then stays in it.   *)
(***************************************************************************)
MaxChunkSize == 3   \* largest chunk_size and chunk_overlap constructed with
MaxWords == 5       \* longest section chunked
MaxLoop == 6        \* iterations of the while loop that are followed

\* TextChunker(chunk_size, chunk_overlap)._chunk_section on a section of
\* nwords words: lines 108-119, and lines 122-123
ChunkSectionCall(size, overlap, nwords) ==
    /\ WriterAt("idle")
    /\ IF nwords <= size
       THEN /\ last' = [op |-> "_chunk_section", chunk_size |-> size,
                        chunk_overlap |-> overlap, nwords |-> nwords,
                        chunks |-> <<[chunk_idx |-> 0, word_count |-> nwords]>>]
            /\ UNCHANGED <<pc, call>>
       ELSE /\ pc' = "cs_loop"
            /\ call' = [op |-> "_chunk_section", chunk_size |-> size,
                        chunk_overlap |-> overlap, nwords |-> nwords,
                        chunk_idx |-> 0, start_idx |-> 0, chunks |-> <<>>]
            /\ last' = NoLast
    /\ UNCHANGED <<index, documents, metadata, disk, results, faults>>
    /\ UNCHANGED <<docVars, appVars>>

\* the loop with the overlap added at line 131 in place of subtracted
ChunkLoopStepForward ==
    /\ WriterAt("cs_loop")
    /\ Len(call.chunks) < MaxLoop
    /\ LET end_idx == Min(call.start_idx + call.chunk_size, call.nwords)
           chunks == Append(call.chunks,
                            [chunk_idx |-> call.chunk_idx,
                             word_count |-> end_idx - call.start_idx,
                             start_word |-> call.start_idx,
                             end_word |-> end_idx])
           returns(cs) ==
               /\ pc' = "idle"
               /\ call' = NoCall
               /\ last' = [op |-> "_chunk_section",
                           chunk_size |-> call.chunk_size,
                           chunk_overlap |-> call.chunk_overlap,
                           nwords |-> call.nwords, chunks |-> cs]
       IN  IF ~(call.start_idx < call.nwords) THEN returns(call.chunks)
           ELSE IF end_idx >= call.nwords THEN returns(chunks)
           ELSE /\ call' = [call EXCEPT
                               !.start_idx = end_idx + call.chunk_overlap,
                               !.chunk_idx = @ + 1,
                               !.chunks = chunks]
                /\ UNCHANGED <<pc, last>>
    /\ UNCHANGED <<index, documents, metadata, disk, results, faults>>
    /\ UNCHANGED <<docVars, appVars>>

\* lines 110-131: one pass through the while loop
ChunkLoopStep ==
    /\ WriterAt("cs_loop")
    /\ Len(call.chunks) < MaxLoop
    /\ LET end_idx == Min(call.start_idx + call.chunk_size, call.nwords)
           chunks == Append(call.chunks,
                            [chunk_idx |-> call.chunk_idx,
                             word_count |-> end_idx - call.start_idx,
                             start_word |-> call.start_idx,
                             end_word |-> end_idx])
           returns(cs) ==
               /\ pc' = "idle"
               /\ call' = NoCall
               /\ last' = [op |-> "_chunk_section",
                           chunk_size |-> call.chunk_size,
                           chunk_overlap |-> call.chunk_overlap,
                           nwords |-> call.nwords, chunks |-> cs]
       IN  IF ~(call.start_idx < call.nwords) THEN returns(call.chunks)
           ELSE IF end_idx >= call.nwords THEN returns(chunks)
           ELSE /\ call' = [call EXCEPT
                               !.start_idx = end_idx - call.chunk_overlap,
                               !.chunk_idx = @ + 1,
                               !.chunks = chunks]
                /\ UNCHANGED <<pc, last>>
    /\ UNCHANGED <<index, documents, metadata, disk, results, faults>>
    /\ UNCHANGED <<docVars, appVars>>

NextChunkLoop ==
    \/ \E size \in 1..MaxChunkSize, overlap \in 0..MaxChunkSize,
          nwords \in 0..MaxWords : ChunkSectionCall(size, overlap, nwords)
    \/ ChunkLoopStep

\* the thread inside _chunk_section keeps running
SpecChunkLoop == Init /\ [][NextChunkLoop]_vars /\ WF_vars(ChunkLoopStep)

(***************************************************************************)
(* RAGManager.get_context_for_query.  A string is the sequence of its      *)
(* pieces: literal parts of the format string, and values put into it.     *)
(***************************************************************************)
Lit(str) == [lit |-> str]
EmptyString == <<>>
Delimiter == Lit("\n---\n")

\* metadata.get('product_name', 'Unknown Product') and
\* metadata.get('filename', 'Unknown File')
MetadataGet(md, key, default) ==
    IF key \in DOMAIN md.doc THEN Lit(md.doc[key]) ELSE Lit(default)

\* lines 451-454: the block of one result
ContextPart(result) ==
    <<Lit("**Source:** "),
      MetadataGet(result.metadata, "product_name", "Unknown Product"),
      Lit(" - "),
      MetadataGet(result.metadata, "filename", "Unknown File"),
      Lit("\n**Content:** "), result.text, Lit("\n")>>

\* a join that puts nothing between the parts
RECURSIVE JoinConcat(_, _)
JoinConcat(sep, parts) ==
    IF parts = <<>> THEN EmptyString
    ELSE Head(parts) \o JoinConcat(sep, Tail(parts))

\* sep.join(parts)
RECURSIVE Join(_, _)
Join(sep, parts) ==
    IF parts = <<>> THEN EmptyString
    ELSE IF Len(parts) = 1 THEN Head(parts)
    ELSE Head(parts) \o <<sep>> \o Join(sep, Tail(parts))

\* lines 438-456
get_context_for_query(hits) ==
    IF hits = <<>> THEN EmptyString
    ELSE Join(Delimiter, [i \in 1..Len(hits) |-> ContextPart(hits[i])])

\* get_context_for_query(query, product, max_chunks) called by a reader
GetContextForQuery(query, product, max_chunks, backend) ==
    /\ results = NoResult
    /\ LET r == SearchOutcome(index, documents, query, max_chunks, product,
                              backend)
       IN  results' = [query |-> query, top_k |-> max_chunks,
                       product_filter |-> product, backend |-> backend,
                       out |-> r.out, raised |-> r.raised,
                       context |-> get_context_for_query(r.out)]
    /\ UNCHANGED <<index, documents, metadata, disk, pc, call, last, faults>>
    /\ UNCHANGED <<docVars, appVars>>

NextContext ==
    \/ \E d \in DocPool : AddDocument(d)
    \/ AddStore
    \/ AddCount
    \/ \E q \in Queries, f \in Filters, k \in 0..MaxTopK, b \in Backends :
          GetContextForQuery(q, f, k, b)
    \/ SearchReturn

\* documents added one by one, and the context of a query asked for at any
\* point
SpecContext == InitNoFaults /\ [][NextContext]_vars

(***************************************************************************)
(* The application with the UI thread searching (generate_response) while  *)
(* the init_db thread is inside rebuild_index, add_document or _save_index *)
(***************************************************************************)
\* a thread is inside rebuild_index, add_document or _save_index
Mutating(p) == p \in {"rb_docs", "rb_meta", "rb_loop", "ad_docs", "ad_meta",
                      "cl_docs", "cl_meta", "sv_index", "sv_docs", "sv_meta"}

\* generate_response: search_documents(prompt, selected_product, top_k)
ReaderSearches(query) ==
    /\ UiRuns
    /\ rag_manager
    /\ pc = "idle"
    /\ parked # NoThread /\ Mutating(parked.pc)
    /\ Search(query, MaxTopK, NoFilter, "ok")

NextRace ==
    \/ NextApp
    \/ \E q \in Queries \ {""} : ReaderSearches(q)
    \/ SearchReturn

SpecRace == InitNoFaults /\ [][NextRace]_vars

(***************************************************************************)
(* The init_db thread as the only writer, with the UI thread searching     *)
(* while it runs.  Both threads get to run again and again, and a search   *)
(* call returns to its caller.                                             *)
(***************************************************************************)
\* the steps of initialize_database on the init_db thread
WorkerSteps ==
    /\ WorkerRunning
    /\ \/ \E order \in {AppOrder} : WorkerRuns(order)
       \/ \E o \in AppOutcomes, io \in {"ok"} : ProcessAllNext(o, io)
       \/ InitializeRefuses
       \/ InitializeRebuilds
       \/ RebuildDocuments
       \/ RebuildMetadata
       \/ RebuildNext
       \/ RebuildSave
       \/ AddStore
       \/ AddCount
       \/ SaveIndexFile
       \/ SaveDocumentsFile
       \/ SaveMetadataFile
       \/ WorkerExits

\* the searches of generate_response
WorkerQueries == {"", "gpu"}

NextWorker ==
    \/ \E ok \in BOOLEAN, retry_ok \in BOOLEAN : SessionStarts(ok, retry_ok)
    \/ RetryButton
    \/ Switch
    \/ WorkerSteps
    \/ \E q \in WorkerQueries, b \in Backends : Search(q, MaxTopK, NoFilter, b)
    \/ SearchReturn

SpecWorker ==
    /\ InitNoFaults
    /\ [][NextWorker]_vars
    /\ SF_vars(UiRuns /\ Switch)
    /\ SF_vars(WorkerSteps)
    /\ WF_vars(SearchReturn)

(***************************************************************************)
(* Properties                                                              *)
(***************************************************************************)
AtRest == pc = "idle"
Fresh == index = <<>> /\ documents = <<>> /\ metadata = NewMetadata
Memory == [index |-> index, documents |-> documents, metadata |-> metadata]
Reloaded == LoadOrCreateIndex(disk, "none")

\* C1: in every reachable state, also inside add_document, rebuild_index
\* and clear_database and right after a load from disk, the index holds as
\* many vectors as the documents list holds chunks.
C1_IndexSizeEqualsDocuments == Len(index) = Len(documents)

\* C2: a process_document call without force_refresh for a file that was
\* processed before with the same bytes, product and stem is answered from
\* the cache and does not invoke the converter, whatever the first call
\* gave.
C2_SecondCallIsCacheHit ==
    proc.op = "process_document" /\ proc.again /\ ~proc.force_refresh =>
        proc.hit /\ ~proc.converted

\* C3: when the conversion fails or yields only whitespace, process_document
\* leaves a record with success=false in the cache under the document's key.
C3_FailureIsCached ==
    proc.op = "process_document" /\ proc.converted
        /\ proc.outcome \in {"blank", "fail"} =>
            /\ Readable(cache[proc.key])
            /\ cache[proc.key].data.success = FALSE

\* a record of a conversion that succeeded and gave content
Indexable(doc) == doc.success /\ NonBlank(doc.content)

\* C4: every record initialize_database hands to rebuild_index has
\* success=true and content that is not blank, and so has the record every
\* stored chunk derives from.
C4_OnlySuccessfulContentIsIndexed ==
    /\ call.op = "rebuild" /\ call.by = "initialize_database" =>
          \A i \in 1..Len(call.docs) : Indexable(call.docs[i])
    /\ last.op = "rebuild" /\ last.by = "initialize_database" =>
          \A i \in 1..Len(last.docs) : Indexable(last.docs[i])
    /\ \A j \in 1..Len(documents) : Indexable(documents[j].metadata.doc)

\* an initialize_database that returned with one document converted and
\* indexed and the other one failed
C4_Witness ==
    /\ AtRest /\ last.op = "rebuild" /\ last.by = "initialize_database"
    /\ last.summary.successful = 1 /\ last.summary.failed = 1
    /\ Len(last.docs) = 1
    /\ Len(documents) >= 1

\* the three files hold the fields in memory, and a load gives them back
DiskHoldsMemory ==
    /\ disk = [index |-> File(index), documents |-> File(documents),
               metadata |-> File(metadata)]
    /\ Reloaded = Memory

C6_PartialOrUnreadableStartsFresh ==
    AtRest /\ last.op = "construct" =>
        LET both == Exists(disk.index) /\ Exists(disk.documents)
            onlyOne == Exists(disk.index) # Exists(disk.documents)
            unreadable ==
                both /\ \/ last.readFail # "none"
                        \/ ~Readable(disk.index)
                        \/ ~Readable(disk.documents)
                        \/ Exists(disk.metadata) /\ ~Readable(disk.metadata)
        IN  /\ onlyOne \/ unreadable => Fresh
            /\ \/ index = <<>> /\ documents = <<>>
               \/ /\ both /\ Readable(disk.index) /\ Readable(disk.documents)
                  /\ index = disk.index.data
                  /\ documents = disk.documents.data

\* a restart that finds a written faiss.index and no documents.pkl
C6_Witness ==
    /\ AtRest /\ last.op = "construct"
    /\ Readable(disk.index) /\ disk.index.data # <<>>
    /\ ~Exists(disk.documents)
    /\ Fresh

C8_RebuildTwiceSameCounts ==
    AtRest /\ last.op = "rebuild" /\ last.repeat =>
        Counts(metadata) = last.before

\* the second of two rebuilds of the same two documents, three chunks
C8_Witness ==
    /\ AtRest /\ last.op = "rebuild" /\ last.repeat
    /\ metadata.total_chunks = 3 /\ metadata.total_documents = 2

\* the chunks of a list of documents, and the counters that count them
ExpectedChunks(docs) ==
    Flatten([i \in 1..Len(docs) |-> ChunkText(docs[i].content, docs[i])])

ExpectedCounters(docs) ==
    LET giving == {i \in 1..Len(docs) : ChunkText(docs[i].content, docs[i]) # <<>>}
        of(p) == {i \in giving : docs[i].product = p}
        exp == ExpectedChunks(docs)
    IN  [total_documents |-> Cardinality(giving),
         total_chunks |-> Len(exp),
         products |-> [p \in {docs[i].product : i \in giving} |->
            [document_count |-> Cardinality(of(p)),
             chunk_count |-> Cardinality({j \in 1..Len(exp) :
                                            exp[j].metadata.doc.product = p})]]]

\* C9: when rebuild_index(docs) has returned, the documents list holds
\* exactly the chunks of the supplied documents, in the order supplied and
\* numbered from 0, the index holds their vectors, and the counters count
\* these chunks and the documents that gave at least one, and nothing else.
C9_RebuildHoldsExactlySuppliedChunks ==
    AtRest /\ last.op = "rebuild" =>
        LET exp == ExpectedChunks(last.docs)
        IN  /\ Len(documents) = Len(exp)
            /\ Len(index) = Len(exp)
            /\ \A j \in 1..Len(exp) :
                  /\ documents[j].text = exp[j].text
                  /\ documents[j].metadata = exp[j].metadata
                  /\ documents[j].doc_id = j - 1
                  /\ documents[j].embedding_id = j - 1
                  /\ index[j] = Embed(exp[j].text)
            /\ Counts(metadata) = ExpectedCounters(last.docs)
            /\ last.ret = Len(exp)

\* a rebuild of two documents over a disk that held three other chunks
C9_Witness ==
    /\ AtRest /\ last.op = "rebuild"
    /\ last.docs = <<DocB, DocA>>
    /\ Len(documents) = 3
    /\ Exists(disk.documents) /\ Readable(disk.documents)
    /\ Len(disk.documents.data) = 3
    /\ disk.documents.data # documents

\* C10: a list returned by search with top_k >= 1 has at most top_k
\* entries, scores that never increase along the list, and, under a product
\* filter, only chunks of that product.
C10_SearchResultsBoundedRankedFiltered ==
    results # NoResult =>
        LET out == results.out
        IN  /\ Len(out) <= results.top_k
            /\ \A i \in 1..Len(out) : \A j \in i..Len(out) :
                  out[i].similarity_score >= out[j].similarity_score
            /\ results.product_filter # NoFilter =>
                  \A i \in 1..Len(out) :
                      out[i].metadata.doc.product = results.product_filter

\* a filtered search on an index of both products, where the nearest
\* neighbour is a chunk of the other product
C10_Witness ==
    /\ results # NoResult
    /\ results.product_filter = "general"
    /\ results.top_k = 1
    /\ Len(results.out) = 1
    /\ \E i \in 1..Len(documents) :
          documents[i].metadata.doc.product = "openshift_ai"
    /\ search(index, documents, results.query, 1, NoFilter)[1].metadata.doc.product
          = "openshift_ai"

\* the chunks search is to return: the first top_k, best first, of those
\* among the Min(2 * top_k, N) nearest vectors that pass the filter
NearestPassing(idx, docs, query, top_k, product_filter) ==
    LET near == IndexSearch(idx, EmbedQuery(query),
                            Min(2 * top_k, Len(docs)), DOMAIN idx)
        Passes(h) ==
            /\ h.idx >= 0 /\ h.idx < Len(docs)
            /\ \/ product_filter = NoFilter
               \/ docs[h.idx + 1].metadata.doc.product = product_filter
        passing == SelectSeq(near, Passes)
    IN  SubSeq(passing, 1, Min(top_k, Len(passing)))

\* C11: a search of a non-empty database with top_k >= 1 returns exactly
\* the first top_k, in descending score order, of the chunks among the
\* min(2 * top_k, N) nearest neighbours that pass the product filter; a
\* chunk ranked beyond 2 * top_k is never returned, also when fewer than
\* top_k were collected.
C11_SearchReturnsFirstOfOverFetch ==
    results # NoResult /\ results.backend = "ok" /\ results.query # ""
        /\ Len(documents) > 0 =>
            LET exp == NearestPassing(index, documents, results.query,
                                      results.top_k, results.product_filter)
                out == results.out
            IN  /\ Len(out) = Len(exp)
                /\ \A i \in 1..Len(exp) :
                      /\ out[i].doc_id = exp[i].idx
                      /\ out[i].text = documents[exp[i].idx + 1].text
                      /\ out[i].metadata = documents[exp[i].idx + 1].metadata
                      /\ out[i].similarity_score = exp[i].score

\* a filtered search that returns nothing although a chunk of the product
\* is stored: it is ranked third and top_k is 1
C11_Witness ==
    /\ results # NoResult /\ results.backend = "ok" /\ results.query = "gpu"
    /\ results.top_k = 1 /\ results.product_filter = "general"
    /\ Len(index) = 3 /\ Len(documents) = 3
    /\ \E i \in 1..Len(documents) : documents[i].metadata.doc.product = "general"
    /\ results.out = <<>>

\* C12: search returns to its caller without raising; it returns the empty
\* list for an empty query, for a database without chunks and when a backend
\* call fails; and a search leaves index, documents and counters as they
\* were.
C12_SearchNeverRaises ==
    /\ [](results # NoResult =>
            /\ ~results.raised
            /\ results.query = "" \/ Len(documents) = 0
                  \/ results.backend # "ok" => results.out = <<>>)
    /\ [][results = NoResult /\ results' # NoResult =>
            UNCHANGED <<index, documents, metadata, disk>>]_vars

\* a search whose index.search call raised on a database that would have
\* answered
C12_Witness ==
    /\ results # NoResult /\ results.backend = "search_raises"
    /\ results.query = "gpu" /\ Len(documents) = 3
    /\ results.out = <<>> /\ ~results.raised
    /\ search(index, documents, "gpu", results.top_k, NoFilter) # <<>>

\* the chunks chunk_text returned last, and the words of the text it was
\* given
Chunked == AtRest /\ last.op = "chunk_text"
WordsOf(text) ==
    IF text.kind # "text" THEN 0
    ELSE LET RECURSIVE Sum(_)
             Sum(i) == IF i = 0 THEN 0 ELSE text.sections[i] + Sum(i - 1)
         IN  Sum(Len(text.sections))

\* words two consecutive chunks share: the last words of the first that are
\* the first words of the second
Overlap(c1, c2) ==
    IF c1.text.section = c2.text.section /\ c2.text.from >= c1.text.from
           /\ c2.text.from <= c1.text.to
    THEN c1.text.to - c2.text.from
    ELSE 0

\* C13: a text of one section of exactly 1500 words is chunked into exactly
\* two chunks, words[0:1000] and words[800:1500].
C13_FifteenHundredWordsTwoChunks ==
    Chunked /\ last.text = Text(1, <<1500>>) =>
        /\ Len(last.chunks) = 2
        /\ last.chunks[1].text = [cid |-> 1, section |-> 0, from |-> 0, to |-> 1000]
        /\ last.chunks[2].text = [cid |-> 1, section |-> 0, from |-> 800, to |-> 1500]

\* chunk_text has returned for the text of 1500 words
C13_Witness ==
    /\ Chunked /\ last.text = Text(1, <<1500>>)
    /\ Len(last.chunks) > 1
    /\ last.chunks[1].metadata.chunk.end_word = chunk_size

\* C14 as stated: for a text of more than chunk_size words every pair of
\* consecutive chunks but the last pair overlaps by exactly chunk_overlap
\* words.
C14_ConsecutiveChunksOverlap ==
    Chunked /\ WordsOf(last.text) > chunk_size =>
        \A i \in 1..(Len(last.chunks) - 2) :
            Overlap(last.chunks[i], last.chunks[i + 1]) = chunk_overlap

\* C14 amended: two consecutive chunks of the same section, the last pair
\* included, overlap by exactly chunk_overlap words; a chunk that follows a
\* chunk of another section starts that section and shares no word with it.
C14_ChunksOfOneSectionOverlap ==
    Chunked =>
        \A i \in 1..(Len(last.chunks) - 1) :
            LET c1 == last.chunks[i]
                c2 == last.chunks[i + 1]
            IN  IF c1.text.section = c2.text.section
                THEN /\ Overlap(c1, c2) = chunk_overlap
                     /\ c2.text.from = c1.text.to - chunk_overlap
                     /\ c2.text.to > c1.text.to
                ELSE /\ c2.text.section = c1.text.section + 1
                     /\ c2.text.from = 0
                     /\ Overlap(c1, c2) = 0

\* a section of 2600 words cut into three chunks, followed by a second
\* section
C14_Witness ==
    /\ Chunked /\ last.text.kind = "text"
    /\ Len(last.text.sections) = 2 /\ last.text.sections[1] = 2600
    /\ Len(last.chunks) >= 4
    /\ last.chunks[3].text.section = 0
    /\ last.chunks[4].text.section = 1

\* C15: every chunk has at most chunk_size words and records its number of
\* words; a section of at most chunk_size words is emitted whole, as one
\* chunk with chunk_idx 0.
C15_ChunksWithinChunkSize ==
    Chunked /\ last.text.kind = "text" =>
        /\ \A i \in 1..Len(last.chunks) :
              LET c == last.chunks[i]
              IN  /\ c.text.to - c.text.from <= chunk_size
                  /\ c.metadata.chunk.word_count = c.text.to - c.text.from
                  /\ c.text.to <= last.text.sections[c.text.section + 1]
        /\ \A s \in 1..Len(last.text.sections) :
              last.text.sections[s] <= chunk_size =>
                  LET of == {i \in 1..Len(last.chunks) :
                                last.chunks[i].text.section = s - 1}
                  IN  /\ Cardinality(of) = 1
                      /\ \A i \in of :
                            /\ last.chunks[i].text.from = 0
                            /\ last.chunks[i].text.to = last.text.sections[s]
                            /\ last.chunks[i].metadata.chunk.chunk_idx = 0

\* a section of exactly chunk_size words emitted whole, beside a section of
\* one word more that is cut in two
C15_Witness ==
    /\ Chunked /\ last.text = Text(1, <<1000, 1001>>)
    /\ Len(last.chunks) = 3
    /\ last.chunks[1].metadata.chunk.word_count = chunk_size

\* process_all_documents is at its return statement
ProcessAllReturns == pc = "pa_loop" /\ call.op = "init" /\ call.todo = <<>>

\* C16: when process_all_documents returns, every discovered document was
\* processed exactly once, in discovery order, whatever failed before it;
\* successful + failed = total_docs, and errors holds one entry per failed
\* document.
C16_ProcessAllCoversEveryDocument ==
    ProcessAllReturns =>
        LET sm == call.summary
            failed == {i \in 1..Len(sm.processed) :
                          ~Indexable(sm.processed[i])}
        IN  /\ sm.total_docs = Len(call.order)
            /\ Len(sm.processed) = Len(call.order)
            /\ \A i \in 1..Len(call.order) :
                  sm.processed[i].filename = call.order[i]
            /\ sm.successful + sm.failed = sm.total_docs
            /\ sm.failed = Cardinality(failed)
            /\ Len(sm.errors) = sm.failed
            /\ {sm.errors[j] : j \in 1..Len(sm.errors)}
                  = {sm.processed[i].filename : i \in failed}

\* process_all_documents returns after the first document failed and the
\* second one was converted
C16_Witness ==
    /\ ProcessAllReturns
    /\ ~call.summary.processed[1].success
    /\ call.summary.processed[2].success
    /\ call.summary.failed = 1 /\ call.summary.successful = 1

\* a request that gave no 200 response
RemoteFailed(e) == e \in {"status", "exception", "timeout"}

\* convert_pdf answers with the result of local extraction when both
\* requests failed
ConvertFallsBack ==
    last.op = "convert_pdf" /\ RemoteFailed(last.e1) /\ RemoteFailed(last.e2) =>
        /\ ~last.raised
        /\ last.result = FallbackPdfExtract(last.local)
        /\ last.result.method # "Docling_API"

\* C18: when every request to the conversion service fails, convert_pdf
\* returns the result of local extraction as a value; and a converter can be
\* constructed, so that local extraction is reached, also when the service
\* is not available to the deployment at all.
C18_LocalExtractionWithoutRemote ==
    /\ ConvertFallsBack
    /\ last.op = "DoclingProcessor" => ~last.raised

\* C17 as stated: a cache entry, once it exists, keeps its value and is not
\* removed by any process_document or process_all_documents call, with or
\* without force_refresh.
C17_CacheEntriesImmutable ==
    [][\A k \in CacheKeys : Exists(cache[k]) => cache'[k] = cache[k]]_vars

\* C17 amended: no call removes a cache entry, and an entry that can be read
\* keeps its value unless a call for its document converts the document
\* again, which only a call with force_refresh does, or a call whose read of
\* the entry failed.
C17_CacheEntriesKeptUnlessRefreshed ==
    [][\A k \in CacheKeys :
          /\ Exists(cache[k]) => Exists(cache'[k])
          /\ Readable(cache[k]) /\ cache'[k] # cache[k] =>
                /\ proc'.op = "process_document" /\ proc'.key = k
                /\ proc'.converted
                /\ proc'.force_refresh \/ proc'.io = "load_fails"]_vars

\* a call without force_refresh answered from an entry that a call with
\* force_refresh had written over an earlier one with the text of local
\* extraction
C17_Witness ==
    /\ proc.op = "process_document" /\ proc.again /\ proc.hit
    /\ ~proc.force_refresh
    /\ proc.file = "a.pdf" /\ files["a.pdf"] = 2
    /\ Readable(cache[CacheKey("a.pdf", 1)])
    /\ cache[CacheKey("a.pdf", 1)].data.content = FileText("a.pdf", 1)
    /\ cache[proc.key].data.content = LocalText("a.pdf", 2)
    /\ proc.ret = cache[proc.key].data

\* C19: over the whole life of the process, and over every path that leads
\* to _auto_initialize_rag_database, at most one init_db thread is started.
C19_WorkerStartedAtMostOnce == workers <= 1

\* C20: the operations that change the index are serialized, no two threads
\* being inside one at a time, and a thread outside them never finds the
\* index and the list of documents of different sizes.
C20_IndexMutationsSerialized ==
    parked # NoThread =>
        /\ ~(Mutating(pc) /\ Mutating(parked.pc))
        /\ ~Mutating(pc) => Len(index) = Len(documents)

\* the init_db threads that were started have all ended
WorkerDone == workers > 0 /\ parked = NoThread

\* the records of the discovered documents that converted to text
ConvertedDocs == IndexableDocs(GetProcessedDocuments(cache, AppOrder))

\* the database holds the chunks of every converted document, and nothing
\* else
FullyPopulated ==
    LET exp == ExpectedChunks(ConvertedDocs)
    IN  /\ Len(documents) = Len(exp)
        /\ \A j \in 1..Len(exp) : /\ documents[j].text = exp[j].text
                                  /\ documents[j].metadata = exp[j].metadata
        /\ index = IndexAdd(<<>>, exp)

\* C21: with the init_db thread the only writer and the threads scheduled
\* fairly, a thread that was started ends; once it has ended, if a
\* discovered document converted to text, the index is not empty, holds the
\* chunks of every converted document, and is on disk, so that every later
\* search reads it; a search at any earlier point returns a list and does
\* not raise.
C21_WorkerEventuallyPopulates ==
    /\ (workers > 0) ~> WorkerDone
    /\ [](WorkerDone /\ ConvertedDocs # <<>> =>
             /\ index # <<>>
             /\ FullyPopulated
             /\ DiskHoldsMemory)
    /\ [](results # NoResult => ~results.raised)

\* a search answered, after the thread has ended, from the one-chunk index
\* the thread built and saved
C21_Witness ==
    /\ WorkerDone /\ ConvertedDocs # <<>>
    /\ Len(index) = 1 /\ DiskHoldsMemory
    /\ results # NoResult /\ results.query = "gpu" /\ results.backend = "ok"
    /\ Len(results.out) = 1

\* the blocks of a context string: the pieces between the delimiters
RECURSIVE Blocks(_, _)
Blocks(str, block) ==
    IF str = <<>> THEN <<block>>
    ELSE IF Head(str) = Delimiter THEN <<block>> \o Blocks(Tail(str), <<>>)
    ELSE Blocks(Tail(str), Append(block, Head(str)))

\* a context string was returned
ContextReturned == results # NoResult /\ "context" \in DOMAIN results

\* C22: get_context_for_query returns the empty string exactly when the
\* search returns no hits; otherwise the string is one block per hit, in the
\* order of the hits, at most max_chunks of them, with the delimiter between
\* them, and each block names the product and file of its hit and holds its
\* text.
C22_ContextIsOneBlockPerHit ==
    ContextReturned =>
        /\ results.context = EmptyString <=> results.out = <<>>
        /\ results.out # <<>> =>
              LET blocks == Blocks(results.context, <<>>)
              IN  /\ Len(blocks) = Len(results.out)
                  /\ Len(blocks) <= results.top_k
                  /\ \A i \in 1..Len(blocks) :
                        /\ Len(blocks[i]) = 7
                        /\ blocks[i][1] = Lit("**Source:** ")
                        /\ blocks[i][2] \in
                              {Lit("Unknown Product"),
                               Lit(ProductName(results.out[i].metadata.doc.product))}
                        /\ blocks[i][4] =
                              Lit(results.out[i].metadata.doc.filename)
                        /\ blocks[i][6] = results.out[i].text

\* a context of two blocks, for two hits of different documents
C22_Witness ==
    /\ ContextReturned
    /\ Len(results.out) = 2
    /\ results.out[1].metadata.doc.filename
          # results.out[2].metadata.doc.filename
    /\ Len(results.context) = 15

\* C23: for every chunk_size >= 1 and chunk_overlap >= 0 the constructor
\* accepts, chunk_overlap >= chunk_size included, and every section, a call
\* of _chunk_section that entered its loop returns.
C23_ChunkingTerminates == (pc = "cs_loop") ~> (pc = "idle")

\* _chunk_section returned the windows of a section longer than chunk_size,
\* cut by a chunker whose overlap is smaller than its chunk size
Windowed ==
    /\ pc = "idle" /\ last.op = "_chunk_section"
    /\ last.nwords > last.chunk_size
    /\ last.chunk_overlap < last.chunk_size

\* C24: the windows of a section of more than chunk_size words, with
\* chunk_overlap < chunk_size: the first starts at word 0, each next one
\* starts chunk_overlap words before the end of the one before, chunk_idx
\* counts 0, 1, 2, ..., the last one ends at the last word, and every word
\* of the section is in some window.
C24_WindowsCoverSection ==
    Windowed =>
        LET cs == last.chunks
        IN  /\ cs # <<>>
            /\ cs[1].start_word = 0
            /\ \A i \in 1..(Len(cs) - 1) :
                  cs[i + 1].start_word = cs[i].end_word - last.chunk_overlap
            /\ \A i \in 1..Len(cs) :
                  /\ cs[i].chunk_idx = i - 1
                  /\ cs[i].word_count = cs[i].end_word - cs[i].start_word
            /\ cs[Len(cs)].end_word = last.nwords
            /\ \A w \in 0..(last.nwords - 1) :
                  \E i \in 1..Len(cs) :
                     cs[i].start_word <= w /\ w < cs[i].end_word

\* five words cut into four windows of two words that overlap by one
C24_Witness ==
    /\ Windowed
    /\ last.nwords = 5 /\ last.chunk_size = 2 /\ last.chunk_overlap = 1
    /\ Len(last.chunks) = 4

\* no thread is inside an operation, and every init_db thread has ended
AllReturned == pc = "idle" /\ WorkerDone

\* C25: once an initialize_database of the init_db thread and one of the UI
\* thread that overlapped it have both returned, no chunk is stored twice,
\* the index, the list of documents and total_chunks have one size, and the
\* vector at every position is the embedding of the chunk at that position.
C25_OverlappingRebuildsConsistent ==
    AllReturned =>
        /\ Len(index) = Len(documents)
        /\ metadata.total_chunks = Len(documents)
        /\ \A i \in 1..Len(documents) :
              /\ i <= Len(index) => index[i] = Embed(documents[i].text)
              /\ \A j \in 1..Len(documents) :
                    i # j => documents[i].text # documents[j].text

\* C26: every result of a search that ran while another thread was inside
\* rebuild_index carries the text and metadata of the chunk whose vector
\* gave the reported score: the score is the similarity of the query to the
\* embedding of the returned text.
C26_SearchPairsVectorWithItsChunk ==
    results # NoResult =>
        \A i \in 1..Len(results.out) :
           results.out[i].similarity_score =
              Score(EmbedQuery(results.query), Embed(results.out[i].text))

\* the sum of one of the per-product counts
RECURSIVE SumCounts(_, _, _)
SumCounts(ps, S, field) ==
    IF S = {} THEN 0
    ELSE LET p == CHOOSE x \in S : TRUE
         IN  ps[p][field] + SumCounts(ps, S \ {p}, field)

\* C27: whenever no operation is running, after construction, load,
\* add_document, rebuild_index or clear_database, total_chunks is the number
\* of stored chunks and the sum of the per-product chunk_count values, and
\* total_documents is the sum of the per-product document_count values.
C27_CountersMatchStoredChunks ==
    AtRest =>
        /\ metadata.total_chunks = Len(documents)
        /\ metadata.total_chunks =
              SumCounts(metadata.products, DOMAIN metadata.products,
                        "chunk_count")
        /\ metadata.total_documents =
              SumCounts(metadata.products, DOMAIN metadata.products,
                        "document_count")

\* C28: an initialize_database whose process_all_documents counted no
\* successful document returns success=false, and no step of the call, from
\* its start to that return, changes the index, the list of documents, the
\* counters or the three files.
C28_RefusalLeavesDatabase ==
    /\ [][pc' = "pa_loop" \/ (pc = "pa_loop" /\ pc' = "idle") =>
             UNCHANGED <<index, documents, metadata, disk>>]_vars
    /\ [][pc = "pa_loop" /\ call.todo = <<>> /\ call.summary.successful = 0 =>
             /\ pc' = "idle"
             /\ last' = [op |-> "init", success |-> FALSE,
                         summary |-> call.summary]]_vars

\* an initialize_database refused, with both conversions failed, on a
\* database that holds the chunks an earlier call indexed and saved
C28_Witness ==
    /\ AtRest /\ last.op = "init" /\ ~last.success
    /\ last.summary.failed = 2 /\ last.summary.successful = 0
    /\ Len(documents) >= 1 /\ Len(index) = Len(documents)
    /\ DiskHoldsMemory

\* an initialize_database that rebuilt the index has returned
InitializeReturned ==
    AtRest /\ last.op = "rebuild" /\ last.by = "initialize_database"

\* the files process_all_documents counted as failed
FailedFiles(summary) == {summary.errors[i] : i \in 1..Len(summary.errors)}

\* C29: after an initialize_database that returned success, no stored chunk
\* belongs to a document that the process_all_documents run of that call
\* counted as failed, with force_refresh and an older cache entry for the
\* same bytes included.
C29_FailedDocumentsContributeNoChunks ==
    InitializeReturned =>
        \A j \in 1..Len(documents) :
           documents[j].metadata.doc.filename \notin FailedFiles(last.summary)

\* C30: after every _save_index attempt, one that raised part-way and had
\* its error swallowed included, a restart on the same path loads an index
\* and a list of documents of one size, with total_chunks counting the
\* loaded chunks.
C30_PersistedFilesAgree ==
    AtRest /\ last.op \in {"save", "rebuild", "clear"} =>
        /\ Len(Reloaded.index) = Len(Reloaded.documents)
        /\ Reloaded.metadata.total_chunks = Len(Reloaded.documents)

====
